---- MODULE Spec2Model ----
(***************************************************************************)
(* FileMerger of src/main.py: start() creates the output directory, opens  *)
(* the output file and writes every line the generator                     *)
(* walk_directory/handle_file yields.  The file system is the environment: *)
(* what os.listdir, os.path.isdir and open/read return is chosen when the  *)
(* code asks.  Names and lines are sequences of one-character strings so   *)
(* that endswith, lstrip and startswith are computed as Python does.       *)
(***************************************************************************)
EXTENDS Integers, Sequences, FiniteSets, TLC

\* ---------------------------------------------------------------- bounds
\* entries in the whole tree below project_dir
MaxNodes == 3
\* length of the longest path, project_dir included
MaxDepth == 3
\* lines read from all the files of the tree together
MaxLines == 2

\* ---------------------------------------------------------- string helpers
\* str.endswith
EndsWith(s, suf) ==
    /\ Len(suf) <= Len(s)
    /\ SubSeq(s, Len(s) - Len(suf) + 1, Len(s)) = suf

\* str.startswith
StartsWith(s, pre) ==
    /\ Len(pre) <= Len(s)
    /\ SubSeq(s, 1, Len(pre)) = pre

Whitespace == {" ", "\t", "\n"}

\* str.lstrip()
RECURSIVE LStrip(_)
LStrip(s) ==
    IF s # <<>> /\ Head(s) \in Whitespace THEN LStrip(Tail(s)) ELSE s

\* ------------------------------------------------------------ input sets
NamePy == <<"a", ".", "p", "y">>
NameS == <<"s">>
Names == {NamePy, NameS}

ExtPy == <<".", "p", "y">>
ExtTxt == <<".", "t", "x", "t">>

LineCode == <<"x", "\n">>
LineComment == <<" ", "#", "\n">>
LineMid == <<"x", "#", "\n">>
Lines == {LineCode, LineComment, LineMid}

\* get_language_syntax: the block comment pair and the inline marker
BlockPy == [open |-> "\"\"\"", close |-> "\"\"\""]
\* Config's default block_comment: the empty dict
BlockEmpty == [k \in {} |-> ""]
InlineStr == [type |-> "str", val |-> <<"#">>]
\* Config's default inline_comment: the empty dict
InlineDict == [type |-> "dict", val |-> <<>>]

Configs ==
    [ project_dir : {NameS},
      skip_folders : {{}, {NameS}, {NamePy}},
      skip_files : {{}, {NamePy}},
      allowed_extensions : {{ExtTxt}, {ExtTxt, ExtPy}},
      block_comment : {BlockPy, BlockEmpty},
      inline_comment : {InlineStr, InlineDict} ]

\* sequences over S of length at most n
RECURSIVE SeqsUpTo(_, _)
SeqsUpTo(S, n) ==
    IF n = 0 THEN {<<>>}
    ELSE LET shorter == SeqsUpTo(S, n - 1)
         IN  shorter \cup {Append(q, x) : q \in shorter, x \in S}

Distinct(q) == \A i, j \in 1..Len(q) : i # j => q[i] # q[j]

\* what os.listdir may return: distinct names, within the tree's bounds
Listings(depth, budget) ==
    IF depth >= MaxDepth THEN {<<>>}
    ELSE LET n == IF budget < Cardinality(Names) THEN budget
                  ELSE Cardinality(Names)
         IN  {q \in SeqsUpTo(Names, n) : Distinct(q)}

VARIABLES
    config,   \* the Config the FileMerger was built from
    pc,       \* position of start(): makedirs, open, run, returned, raised
    exc,      \* the exception that left start(), or "none"
    stack,    \* the generator's frames, innermost last
    opened,   \* the output file has been opened (and truncated)
    out,      \* what has been written to the output file
    log,      \* logging.error calls
    listed,   \* paths os.listdir was called on
    failed,   \* paths whose listing raised OSError
    listings, \* what os.listdir returned: [path, files]
    dirs,     \* the listed entries that are directories
    visited,  \* paths handle_file was called on, in call order
    reads,    \* what read_file delivered: [file, got, outcome]
    nodes,    \* entries listed so far
    nlines    \* lines read so far

vars == <<config, pc, exc, stack, opened, out, log, listed, failed, listings,
          dirs, visited, reads, nodes, nlines>>

\* the file system as the walk has seen it
fsvars == <<listed, failed, listings, dirs, visited, reads, nodes, nlines>>

Init ==
    /\ config \in Configs
    /\ pc = "makedirs"
    /\ exc = "none"
    /\ stack = <<>>
    /\ opened = FALSE
    /\ out = <<>>
    /\ log = <<>>
    /\ listed = {}
    /\ failed = {}
    /\ listings = {}
    /\ dirs = {}
    /\ visited = <<>>
    /\ reads = {}
    /\ nodes = 0
    /\ nlines = 0

\* ------------------------------------------------------ generator frames
\* One frame per walk_directory call in progress: the directory, its
\* listing, the entry handle_file is working on, handle_file's position
\* (list, entry, after, read, content) and the lines still to be yielded.
Frame(path) ==
    [path |-> path, files |-> <<>>, i |-> 1, pos |-> "list", buf |-> <<>>]

Top == stack[Len(stack)]

\* for file in files: listing order
CurReversed == Top.files[Len(Top.files) - Top.i + 1]
Cur == Top.files[Top.i]

\* new_file = os.path.join(path, file)
NewFile == Append(Top.path, Cur)
SetTop(f) == [stack EXCEPT ![Len(stack)] = f]
\* handle_file returns; the for loop of walk_directory takes the next entry
NextEntry == SetTop([Top EXCEPT !.i = @ + 1, !.pos = "entry", !.buf = <<>>])
\* a generator frame returns to the frame that runs it
Pop == SubSeq(stack, 1, Len(stack) - 1)

\* ----------------------------------------------------------- the filters
\* line 118: file in self.skip_folders
never_skip_folder(file) == FALSE
is_skip_folder(file) == file \in config.skip_folders

\* os.path.isdir(new_file)
isdir(new_file) == new_file \in dirs

\* go_to_next_file
go_to_next_file_no_skip_files(file) ==
    ~ \E ext \in config.allowed_extensions : EndsWith(file, ext)
go_to_next_file(file) ==
    \/ ~ \E ext \in config.allowed_extensions : EndsWith(file, ext)
    \/ file \in config.skip_files

\* line 126 as it would read if directories were never rendered
skip_when_dir(file) == go_to_next_file(file) \/ isdir(NewFile)
\* line 126: if self.go_to_next_file(file): return
header_skipped(file) == go_to_next_file(file)

\* line 143: l.lstrip().startswith(inline_comment)
is_comment_no_lstrip(l, marker) == StartsWith(l, marker)
is_comment(l, marker) == StartsWith(LStrip(l), marker)

\* lines 142-144: the lines of the file that are yielded
kept_lines(lines, marker) ==
    SelectSeq(lines, LAMBDA l : ~ is_comment(l, marker))

\* ------------------------------------------------------------ the output
HeaderItem(new_file) ==
    [kind |-> "header", file |-> new_file,
     text |-> <<config.block_comment["open"], config.block_comment["close"]>>]
LineItem(new_file, l) == [kind |-> "line", file |-> new_file, text |-> l]
FooterItem(new_file) == [kind |-> "footer", file |-> new_file, text |-> <<>>]

\* An exception leaves start(): the with statement closes the file.
Raise(e) ==
    /\ pc' = "raised"
    /\ exc' = e
    /\ UNCHANGED <<stack, out, log>>

\* f.write's IOError as it would go if start did not catch it
WriteUncaught(item, nextStack) ==
    \E ok \in BOOLEAN :
         IF ok
         THEN /\ out' = Append(out, item)
              /\ stack' = nextStack
              /\ UNCHANGED <<pc, exc, log>>
         ELSE /\ pc' = "raised"
              /\ exc' = "OSError"
              /\ UNCHANGED <<out, stack, log>>
\* lines 79-82: the generator yields item, start writes it; an IOError of
\* f.write is caught and logged, and start returns.
Write(item, nextStack) ==
    /\ exc' = exc
    /\ \E ok \in BOOLEAN :
         IF ok
         THEN /\ out' = Append(out, item)
              /\ stack' = nextStack
              /\ UNCHANGED <<pc, log>>
         ELSE /\ pc' = "returned"
              /\ log' = Append(log, [kind |-> "write", file |-> <<>>])
              /\ UNCHANGED <<out, stack>>

\* ----------------------------------------------------------------- start
\* line 72: os.makedirs; its OSError is not caught
MakeDirs ==
    /\ pc = "makedirs"
    /\ \E ok \in BOOLEAN :
         IF ok THEN pc' = "open" /\ exc' = exc
         ELSE pc' = "raised" /\ exc' = "OSError"
    /\ UNCHANGED <<config, stack, opened, out, log, fsvars>>

\* lines 76-78, 81-82: the generator is created (nothing of it runs yet) and
\* the output file is opened "w+"; an IOError of open is caught and logged
OpenOutput ==
    /\ pc = "open"
    /\ \E ok \in BOOLEAN :
         IF ok
         THEN /\ opened' = TRUE
              /\ out' = <<>>
              /\ stack' = <<Frame(<<config.project_dir>>)>>
              /\ pc' = "run"
              /\ log' = log
         ELSE /\ pc' = "returned"
              /\ log' = Append(log, [kind |-> "write", file |-> <<>>])
              /\ UNCHANGED <<opened, out, stack>>
    /\ UNCHANGED <<config, exc, fsvars>>

\* ------------------------------------------------------- walk_directory
\* the listing's OSError as it would go if walk_directory did not catch it
ListErrorRaised(path) ==
    /\ pc' = "raised"
    /\ exc' = "OSError"
    /\ UNCHANGED <<stack, log>>
\* lines 100-102: the listing failed; logged, and walk_directory returns
ListError(path) ==
    /\ log' = Append(log, [kind |-> "listdir", file |-> path])
    /\ stack' = Pop
    /\ pc' = IF Len(stack) = 1 THEN "returned" ELSE pc
    /\ exc' = exc

\* lines 97-102: os.listdir(next_path). The listing's entries and which of
\* them are directories are the environment's.
ListDir ==
    /\ pc = "run"
    /\ Top.pos = "list"
    /\ listed' = listed \cup {Top.path}
    /\ \/ \E files \in Listings(Len(Top.path), MaxNodes - nodes) :
          \E ds \in SUBSET (1..Len(files)) :
            /\ stack' = SetTop([Top EXCEPT !.files = files, !.pos = "entry"])
            /\ listings' = listings \cup {[path |-> Top.path, files |-> files]}
            /\ dirs' = dirs \cup {Append(Top.path, files[k]) : k \in ds}
            /\ nodes' = nodes + Len(files)
            /\ UNCHANGED <<pc, exc, log, failed>>
       \/ /\ ListError(Top.path)
          /\ failed' = failed \cup {Top.path}
          /\ UNCHANGED <<listings, dirs, nodes>>
    /\ UNCHANGED <<config, opened, out, visited, reads, nlines>>

\* line 104: the for loop is exhausted, walk_directory returns to the
\* handle_file that called it (line 126), or the generator is exhausted
WalkReturn ==
    /\ pc = "run"
    /\ Top.pos = "entry"
    /\ Top.i > Len(Top.files)
    /\ stack' = Pop
    /\ pc' = IF Len(stack) = 1 THEN "returned" ELSE pc
    /\ UNCHANGED <<config, exc, opened, out, log, fsvars>>

\* ---------------------------------------------------------- handle_file
\* lines 104-105, 118-124: the skip_folders test and the recursion
HandleFile ==
    /\ pc = "run"
    /\ Top.pos = "entry"
    /\ Top.i <= Len(Top.files)
    /\ visited' = Append(visited, NewFile)
    /\ stack' = IF is_skip_folder(Cur) THEN NextEntry
                ELSE IF isdir(NewFile)
                THEN Append(SetTop([Top EXCEPT !.pos = "after"]), Frame(NewFile))
                ELSE SetTop([Top EXCEPT !.pos = "after"])
    /\ UNCHANGED <<config, pc, exc, opened, out, log, listed, failed,
                   listings, dirs, reads, nodes, nlines>>

\* lines 126-133: go_to_next_file, then the header is built and yielded
Header ==
    /\ pc = "run"
    /\ Top.pos = "after"
    /\ IF header_skipped(Cur)
       THEN /\ stack' = NextEntry
            /\ UNCHANGED <<pc, exc, out, log>>
       ELSE IF {"open", "close"} \subseteq DOMAIN config.block_comment
       THEN Write(HeaderItem(NewFile), SetTop([Top EXCEPT !.pos = "read"]))
       ELSE Raise("KeyError")
    /\ UNCHANGED <<config, opened, fsvars>>

\* what open and the iteration over the file deliver: the lines read and how
\* the read ended (a directory cannot be opened: IsADirectoryError; the
\* lines decoded before a decoding error are lost with the comprehension)
ReadOutcomes(new_file) ==
    IF isdir(new_file)
    THEN {[file |-> new_file, got |-> <<>>, outcome |-> "oserror"]}
    ELSE [file : {new_file}, got : SeqsUpTo(Lines, MaxLines - nlines),
          outcome : {"eof", "oserror"}]
         \cup {[file |-> new_file, got |-> <<>>, outcome |-> "valueerror"]}

\* read_file as it would go if it did not catch the IOError
ReadDoneUncaught(r) ==
    IF r.outcome = "eof"
    THEN /\ stack' = SetTop([Top EXCEPT
                       !.pos = "content",
                       !.buf = kept_lines(r.got, config.inline_comment.val)])
         /\ UNCHANGED <<pc, exc, out, log>>
    ELSE Raise(IF r.outcome = "oserror" THEN "OSError" ELSE "ValueError")
\* lines 142-144, 173-179: read_file is run to its end by the list
\* comprehension. It catches and logs an IOError and ends; a decoding error
\* (a ValueError) is caught nowhere.
ReadDone(r) ==
    IF r.outcome = "valueerror"
    THEN Raise("ValueError")
    ELSE /\ stack' = SetTop([Top EXCEPT
                       !.pos = "content",
                       !.buf = kept_lines(r.got, config.inline_comment.val)])
         /\ log' = IF r.outcome = "oserror"
                   THEN Append(log, [kind |-> "read", file |-> r.file])
                   ELSE log
         /\ UNCHANGED <<pc, exc, out>>

\* lines 135-144: the type test of inline_comment, then the file is read
ReadFile ==
    /\ pc = "run"
    /\ Top.pos = "read"
    /\ IF config.inline_comment.type # "str"
       THEN /\ Raise("TypeError")
            /\ UNCHANGED <<reads, nlines>>
       ELSE \E r \in ReadOutcomes(NewFile) :
              /\ reads' = reads \cup {r}
              /\ nlines' = nlines + Len(r.got)
              /\ ReadDone(r)
    /\ UNCHANGED <<config, opened, listed, failed, listings, dirs, visited,
                   nodes>>

\* lines 142-144: yield from the list of kept lines
YieldLine ==
    /\ pc = "run"
    /\ Top.pos = "content"
    /\ Top.buf # <<>>
    /\ Write(LineItem(NewFile, Head(Top.buf)),
             SetTop([Top EXCEPT !.buf = Tail(@)]))
    /\ UNCHANGED <<config, opened, fsvars>>

\* line 146: the footer, then handle_file returns
Footer ==
    /\ pc = "run"
    /\ Top.pos = "content"
    /\ Top.buf = <<>>
    /\ Write(FooterItem(NewFile), NextEntry)
    /\ UNCHANGED <<config, opened, fsvars>>

Next ==
    \/ MakeDirs
    \/ OpenOutput
    \/ ListDir
    \/ WalkReturn
    \/ HandleFile
    \/ Header
    \/ ReadFile
    \/ YieldLine
    \/ Footer

Spec == Init /\ [][Next]_vars

\* ===================================================== the properties
Range(q) == {q[i] : i \in 1..Len(q)}
Last(q) == q[Len(q)]
IsPrefix(a, b) == Len(a) <= Len(b) /\ SubSeq(b, 1, Len(a)) = a
ProperPrefix(a, b) == Len(a) < Len(b) /\ SubSeq(b, 1, Len(a)) = a

OutIdx == 1..Len(out)
HeaderIdx(p) == {i \in OutIdx : out[i].kind = "header" /\ out[i].file = p}
FooterIdx(p) == {i \in OutIdx : out[i].kind = "footer" /\ out[i].file = p}
HasHeader(p) == HeaderIdx(p) # {}
HasFooter(p) == FooterIdx(p) # {}
\* the content lines of p in the output, in output order
OutText(p) ==
    LET sel == SelectSeq(out, LAMBDA it : it.kind = "line" /\ it.file = p)
    IN  [i \in 1..Len(sel) |-> sel[i].text]

\* the entries the listings have shown
Entries ==
    UNION {{Append(l.path, l.files[k]) : k \in 1..Len(l.files)} : l \in listings}
Files == Entries \ dirs
\* entries whose handle_file call has not returned
InProgress ==
    {Append(stack[k].path, stack[k].files[stack[k].i]) :
        k \in {n \in 1..Len(stack) : stack[n].pos \in {"after", "read", "content"}}}
\* entries whose handle_file call has not yet decided about the header
Undecided ==
    {Append(stack[k].path, stack[k].files[stack[k].i]) :
        k \in {n \in 1..Len(stack) : stack[n].pos = "after"}}
Finished == Range(visited) \ InProgress
Decided == Range(visited) \ Undecided
\* the generator ran to its end
Exhausted == pc = "returned" /\ stack = <<>>

\* the eligibility the specification states for a name
NameEligible(name) ==
    /\ \E ext \in config.allowed_extensions : EndsWith(name, ext)
    /\ name \notin config.skip_files
\* a name of p at one of the positions ks is in skip_folders
SkipNameAt(p, ks) == \E k \in ks : p[k] \in config.skip_folders
\* the lines of got that are no comment lines, in order
NonComment(got) ==
    LET keep == {j \in 1..Len(got) :
                   ~ StartsWith(LStrip(got[j]), config.inline_comment.val)}
        F[n \in 0..Len(got)] ==
            IF n = 0 THEN <<>>
            ELSE IF n \in keep THEN Append(F[n - 1], got[n]) ELSE F[n - 1]
    IN  F[Len(got)]
\* the place of entry p in the listing of its directory
ListingPos(p) ==
    LET l == CHOOSE x \in listings : x.path = SubSeq(p, 1, Len(p) - 1)
    IN  CHOOSE k \in 1..Len(l.files) : l.files[k] = Last(p)

\* ------------------------------------------------------------------ C1
\* C1 as stated: a file the walk has dealt with has a header block iff its
\* name is eligible and none of its ancestor directory names (project_dir
\* included) is in skip_folders; its own name being in skip_folders plays no
\* part.
C1_Original ==
    \A p \in Files \cap Decided :
        HasHeader(p) <=>
            NameEligible(Last(p)) /\ ~ SkipNameAt(p, 1..(Len(p) - 1))

\* C1 amended: a file the walk has dealt with has a header block iff its name
\* is eligible and is not itself in skip_folders; every headed path has no
\* name in skip_folders below project_dir (project_dir itself is not
\* tested); and a walk that runs to its end deals with every listed entry.
C1_Inclusion ==
    /\ \A p \in Files \cap Decided :
           HasHeader(p) <=>
               NameEligible(Last(p)) /\ Last(p) \notin config.skip_folders
    /\ \A i \in OutIdx : ~ SkipNameAt(out[i].file, 2..Len(out[i].file))
    /\ Exhausted => Entries \subseteq Range(visited)

C1_Witness ==
    /\ \E p \in Files \cap Decided :
           /\ NameEligible(Last(p))
           /\ Last(p) \in config.skip_folders
           /\ ~ HasHeader(p)

\* ------------------------------------------------------------------ C2
\* C2 as stated: no directory whose path holds a name of skip_folders, the
\* starting directory project_dir included, is listed, and nothing below
\* such a directory is in the output.
C2_Original ==
    /\ \A p \in listed : ~ SkipNameAt(p, 1..Len(p))
    /\ \A i \in OutIdx : ~ SkipNameAt(out[i].file, 1..(Len(out[i].file) - 1))

\* C2 amended: no directory met below project_dir whose name is in
\* skip_folders is listed, handle_file is called on nothing below it and
\* nothing below it is in the output; project_dir itself is walked whatever
\* its name.
C2_Pruned ==
    /\ \A p \in listed : ~ SkipNameAt(p, 2..Len(p))
    /\ \A p \in Range(visited) : ~ SkipNameAt(p, 2..(Len(p) - 1))
    /\ \A i \in OutIdx : ~ SkipNameAt(out[i].file, 2..(Len(out[i].file) - 1))
    /\ config.project_dir \in config.skip_folders /\ pc = "run"
           => <<config.project_dir>> \in listed \/ Top.pos = "list"

C2_Witness ==
    /\ Exhausted
    /\ \E p \in dirs \cap Finished :
           /\ Last(p) \in config.skip_folders
           /\ p \notin listed
    /\ config.project_dir \in config.skip_folders
    /\ out # <<>>

\* ------------------------------------------------------------------ C3
\* C3: of the lines read_file delivered for a file, exactly those whose
\* left-stripped form does not start with the inline marker are in the
\* output, unmodified and in their order: the file's content in the output
\* is a prefix of them while the file is being written and is all of them
\* once its footer is written. A line of white space and the marker alone is
\* never written, a line with the marker after other text is.
C3_CommentFilter ==
    /\ \A r \in reads :
           r.outcome # "valueerror" =>
               /\ IsPrefix(OutText(r.file), NonComment(r.got))
               /\ HasFooter(r.file) => OutText(r.file) = NonComment(r.got)
               /\ HasFooter(r.file) /\ config.inline_comment.val = <<"#">> =>
                      /\ LineComment \notin Range(OutText(r.file))
                      /\ LineMid \in Range(r.got) <=> LineMid \in Range(OutText(r.file))
                      /\ LineCode \in Range(r.got) <=> LineCode \in Range(OutText(r.file))
    /\ \A i \in OutIdx :
           out[i].kind = "line" => \E r \in reads : r.file = out[i].file

C3_Witness ==
    \E r \in reads :
        /\ HasFooter(r.file)
        /\ r.got = <<LineComment, LineMid>>
        /\ OutText(r.file) = <<LineMid>>

\* ------------------------------------------------------------------ C4
\* every header in the output is followed by lines of its file only and
\* then by the footer of its file, and no path has two headers
BlocksComplete ==
    /\ \A i \in OutIdx :
           out[i].kind = "header" =>
               \E j \in (i + 1)..Len(out) :
                   /\ out[j].kind = "footer" /\ out[j].file = out[i].file
                   /\ \A k \in (i + 1)..(j - 1) :
                          out[k].kind = "line" /\ out[k].file = out[i].file
    /\ \A i \in OutIdx :
           /\ Cardinality(HeaderIdx(out[i].file)) = 1
           /\ Cardinality(FooterIdx(out[i].file)) = 1

\* C4 as stated, for the runs in which nothing of the environment failed (no
\* write failed, every file could be decoded, the block comment pair is
\* there): when start is over, every included file has its header, its
\* lines and its footer in the output.
C4_Original ==
    /\ pc \in {"returned", "raised"}
    /\ exc \notin {"ValueError", "KeyError"}
    /\ \A i \in 1..Len(log) : log[i].kind # "write"
    => BlocksComplete

\* ------------------------------------------------------------------ C5
\* C5: of two output lines that come from different entries of one
\* directory (each from the entry itself or from below it), the one from the
\* entry listed first is written first; and no path has two headers.
C5_ListingOrder ==
    /\ \A i, j \in OutIdx :
           i < j =>
               LET p == out[i].file
                   q == out[j].file
               IN  \A k \in 2..Len(p) :
                       /\ k <= Len(q)
                       /\ SubSeq(p, 1, k - 1) = SubSeq(q, 1, k - 1)
                       /\ p[k] # q[k]
                       => ListingPos(SubSeq(p, 1, k)) < ListingPos(SubSeq(q, 1, k))
    /\ \A p \in Entries : Cardinality(HeaderIdx(p)) <= 1

C5_Witness ==
    \E i, j \in OutIdx :
        /\ i < j
        /\ Len(out[i].file) = 3
        /\ Len(out[j].file) = 2
        /\ out[i].file[2] # out[j].file[2]
        /\ out[j].kind = "footer"

\* ------------------------------------------------------------------ C6
\* C6: a failed listing is logged and raises nothing; nothing below the
\* directory is handled or written; the walk goes on exactly where it goes
\* on after an empty listing (the frame is gone, the output is as it was),
\* and a walk that runs to its end has dealt with every listed entry and
\* has written the block of every eligible file.
C6_Step ==
    failed' # failed =>
        /\ out' = out
        /\ exc' = exc
        /\ stack' = SubSeq(stack, 1, Len(stack) - 1)
        /\ pc' = IF Len(stack) = 1 THEN "returned" ELSE "run"
        /\ \E i \in 1..Len(log') : log'[i] = [kind |-> "listdir", file |-> Top.path]

C6_State ==
    /\ failed # {} => exc # "OSError"
    /\ \A d \in failed :
           /\ \A i \in OutIdx : ~ ProperPrefix(d, out[i].file)
           /\ \A p \in Range(visited) : ~ ProperPrefix(d, p)
    /\ Exhausted /\ failed # {} =>
           /\ Entries \subseteq Finished
           /\ \A p \in Files :
                  NameEligible(Last(p)) /\ Last(p) \notin config.skip_folders
                      => HasHeader(p) /\ HasFooter(p)

C6_ListingFailure == [](C6_State) /\ [][C6_Step]_vars

C6_Witness ==
    /\ Exhausted
    /\ \E d \in failed : \E q \in Files :
           /\ Len(d) = 2 /\ Len(q) = 2
           /\ HasFooter(q)
           /\ ListingPos(d) < ListingPos(q)

\* ------------------------------------------------------------------ C7
\* C7 as stated: after a file's read has failed nothing more is written for
\* the file, so its block has no footer.
C7_Original ==
    \A r \in reads : r.outcome = "oserror" => ~ HasFooter(r.file)

\* C7 amended: when opening or reading an eligible file fails with an
\* OSError, the failure is logged, the header stays, the lines read before
\* the failure that are no comment lines are written, the footer is still
\* written after them, nothing is raised, and a walk that runs to its end
\* has dealt with every listed entry.
C7_ReadFailure ==
    /\ \A r \in reads :
           r.outcome = "oserror" =>
               /\ \E i \in 1..Len(log) : log[i] = [kind |-> "read", file |-> r.file]
               /\ HasHeader(r.file)
               /\ IsPrefix(OutText(r.file), NonComment(r.got))
               /\ r.file \in Finished =>
                      /\ OutText(r.file) = NonComment(r.got)
                      /\ HasFooter(r.file)
    /\ exc = "OSError" => reads = {}
    /\ Exhausted => Entries \subseteq Finished

C7_Witness ==
    /\ Exhausted
    /\ \E r \in reads : \E q \in dirs \cap listed :
           /\ r.outcome = "oserror"
           /\ r.file \in Files
           /\ r.got = <<LineCode>>
           /\ OutText(r.file) = <<LineCode>>
           /\ HasFooter(r.file)
           /\ Len(q) = Len(r.file)
           /\ SubSeq(q, 1, Len(q) - 1) = SubSeq(r.file, 1, Len(q) - 1)
           /\ ListingPos(r.file) < ListingPos(q)
           /\ \E j \in OutIdx :
                  /\ ProperPrefix(q, out[j].file)
                  /\ out[j].kind = "footer"
                  /\ \A i \in FooterIdx(r.file) : i < j

\* ------------------------------------------------------------------ C8
\* C8 as stated: when the TypeError for an inline_comment that is no string
\* is raised, no directory has been listed, the output file has not been
\* opened and nothing has been written.
C8_Original ==
    exc = "TypeError" => listed = {} /\ ~ opened /\ out = <<>>

C10_DirectoryRendered ==
    /\ \A i \in OutIdx :
           out[i].file \in dirs =>
               /\ out[i].kind # "line"
               /\ NameEligible(Last(out[i].file))
               /\ out[i].file \in listed
               /\ out[i].kind = "footer" => i > 1 /\ out[i - 1] = HeaderItem(out[i].file)
    /\ \A i, j \in OutIdx :
           i < j => ~ ProperPrefix(out[i].file, out[j].file)
    /\ \A p \in dirs \cap Finished :
           NameEligible(Last(p)) /\ Last(p) \notin config.skip_folders
               => HasHeader(p) /\ HasFooter(p)

C10_Witness ==
    \E p \in dirs \cap Finished : \E q \in Files :
        /\ ProperPrefix(p, q)
        /\ HasFooter(q)
        /\ HasFooter(p)
        /\ \A i \in FooterIdx(q) : \A j \in HeaderIdx(p) : i < j

====
